---- MODULE Spec2Model ----
(***************************************************************************)
(* Model of the spatial scoring and recommendation engine of main.py:      *)
(* generate_grid, simulate_layer_values, compute_heat_score,               *)
(* recommend_planting_locations and the two endpoints built on them        *)
(* (/generate-heatmap, /recommendations).                                  *)
(*                                                                         *)
(* Numbers.  Coordinates are exact rationals: an integer numerator over    *)
(* the grid's common denominator `den`, in units of one thousandth of a    *)
(* degree.  Signal values and scores are binary floating-point numbers     *)
(* with Precision significand bits (numpy's float64 has 53), held as an    *)
(* integer count of units of 2^-FracBits; every arithmetic operation       *)
(* rounds to nearest, ties to even, as IEEE 754 does.                      *)
(***************************************************************************)
EXTENDS Integers, Sequences, FiniteSets, TLC

VARIABLES
    req,          \* the HTTP request being served (HeatmapRequest / RecommendationRequest fields)
    heatmapResp,  \* response of POST /generate-heatmap for req
    recsResp,     \* response of POST /recommendations for req
    sel,          \* a bounding box, a grid size and the arguments of recommend_planting_locations
    grid,         \* the return value of generate_grid for sel
    picks,        \* the return value of recommend_planting_locations for grid and sel
    draw,         \* the three standard-normal draws handed to the normalisation pipeline
    layers,       \* the three arrays returned by simulate_layer_values
    score         \* the array returned by compute_heat_score

vars == <<req, heatmapResp, recsResp, sel, grid, picks, draw, layers, score>>

\* A result not produced yet.
None == [status |-> "none"]
Ok(v) == [status |-> "ok", value |-> v]

----------------------------------------------------------------------------
(* Bounds of the model *)

Precision == 4   \* significand bits of the modelled floating-point format
MaxGrid   == 2   \* largest grid_size
MaxCoord  == 2   \* bounding-box corners range over 0..MaxCoord (thousandths of a degree)
MaxSeed   == 1   \* seeds range over 0..MaxSeed
MaxK      == 3   \* top_k ranges up to MaxK
MaxSteps  == 2   \* min_distance_m ranges up to MaxSteps cell widths of 111 m
MaxHeat   == 2   \* directly supplied scores range over 0..MaxHeat
MaxLen    == 2   \* longest array handed to the normalisation pipeline on its own

----------------------------------------------------------------------------
(* Floating-point arithmetic (numpy float64, reduced to Precision bits) *)

Pow2(n) == 2 ^ n

FracBits == 2 * Precision
One == Pow2(FracBits)

Abs(x) == IF x < 0 THEN -x ELSE x

\* The least e >= 0 with num/den < 2^(Precision+e): the exponent of the unit
\* in the last place of num/den.
RECURSIVE Exponent(_, _, _)
Exponent(num, den, e) ==
    IF num < den * Pow2(Precision + e) THEN e ELSE Exponent(num, den, e + 1)

RoundHalfEven(num, den) ==
    LET q == num \div den
        r == num % den
    IN  IF 2 * r < den THEN q
        ELSE IF 2 * r > den THEN q + 1
        ELSE IF q % 2 = 0 THEN q ELSE q + 1

\* The float nearest to the rational num/den (den > 0).
RoundFloat(num, den) ==
    LET a == Abs(num)
        e == Exponent(a, den, 0)
        v == RoundHalfEven(a, den * Pow2(e)) * Pow2(e)
    IN  IF num < 0 THEN -v ELSE v

FAdd(a, b) == RoundFloat(a + b, 1)
FSub(a, b) == RoundFloat(a - b, 1)
FMul(a, b) == RoundFloat(a * b, One)
FDiv(a, b) == IF b < 0 THEN RoundFloat(-(a * One), -b) ELSE RoundFloat(a * One, b)

\* The float of a decimal literal num/den, e.g. 0.6 = Lit(6, 10).
Lit(num, den) == RoundFloat(num * One, den)

RECURSIVE SeqMin(_)
SeqMin(X) ==
    IF Len(X) = 1 THEN X[1]
    ELSE LET m == SeqMin(Tail(X)) IN IF X[1] < m THEN X[1] ELSE m

RECURSIVE SeqMax(_)
SeqMax(X) ==
    IF Len(X) = 1 THEN X[1]
    ELSE LET m == SeqMax(Tail(X)) IN IF X[1] > m THEN X[1] ELSE m

----------------------------------------------------------------------------
(* sklearn.preprocessing.minmax_scale, as called at lines 65 and 76 *)

ValueError == "ValueError"

\* check_array rejects an array with no samples.
minmax_scale_raises(X) == Len(X) = 0

\* MinMaxScaler replaces a zero range by 1 before dividing, so a constant
\* array is mapped to zeros.
handle_zeros_in_scale(data_range) == IF data_range = 0 THEN One ELSE data_range

\* MinMaxScaler.fit_transform on a 1-d array: scale_ = 1 / range,
\* min_ = 0 - data_min * scale_, X * scale_ + min_ ; no clipping.
\* (X is not empty: see minmax_scale_raises.)
minmax_scale(X) ==
    LET data_min == SeqMin(X)
        data_max == SeqMax(X)
        data_range == FSub(data_max, data_min)
        scale_ == FDiv(One, handle_zeros_in_scale(data_range))
        min_ == FSub(0, FMul(data_min, scale_))
    IN  [i \in 1..Len(X) |-> FAdd(FMul(X[i], scale_), min_)]

----------------------------------------------------------------------------
(* Signal simulation and score fusion *)

\* rng.standard_normal(n) for np.random.default_rng(seed): a fixed
\* pseudo-random array per seed, here with values in {-2, -1.5, ..., 2}.
standard_normal(seed, n) ==
    [i \in 1..n |-> ((((seed + 3) * i * i + 5 * seed + i) % 9) - 4) * (One \div 2)]

\* vals = rng.standard_normal(n) * scale + bias, on a given draw
raw_layer(z, scale, bias) == [i \in 1..Len(z) |-> FAdd(FMul(z[i], scale), bias)]

\* lines 63-66 on a given draw
normalize_draw(z, scale, bias) == minmax_scale(raw_layer(z, scale, bias))

simulate_layer_values(n, seed, scale, bias) ==
    normalize_draw(standard_normal(seed, n), scale, bias)

w_temp == Lit(6, 10)
w_build == Lit(25, 100)
w_traffic == Lit(15, 100)

weighted_sum(surface_temp, building_density, traffic) ==
    [i \in 1..Len(surface_temp) |->
        FAdd(FAdd(FMul(w_temp, surface_temp[i]), FMul(w_build, building_density[i])),
             FMul(w_traffic, traffic[i]))]

compute_heat_score(surface_temp, building_density, traffic) ==
    minmax_scale(weighted_sum(surface_temp, building_density, traffic))

----------------------------------------------------------------------------
(* generate_grid *)

\* Mutant of linspace: the step is taken from b, not from b - a.
linspace_step_from_b(a, b, g, i) == 2 * g * a + 2 * i * b

\* np.linspace(a, b, g + 1)[i] = a + i * (b - a) / g, as a numerator over 2 * g.
linspace(a, b, g, i) == 2 * g * a + 2 * i * (b - a)

\* shapely.geometry.box
box(x0, y0, x1, y1) == [minx |-> x0, miny |-> y0, maxx |-> x1, maxy |-> y1]

\* Mutant of grid_inner: the loop index of each axis indexes the other axis.
RECURSIVE grid_inner_transposed(_, _, _, _, _, _)
grid_inner_transposed(bbox, g, xi, yi, i, cells) ==
    IF yi >= g THEN cells
    ELSE grid_inner_transposed(bbox, g, xi, yi + 1, i + 1,
            Append(cells,
                [geometry |-> box(linspace(bbox.minx, bbox.maxx, g, yi),
                                  linspace(bbox.miny, bbox.maxy, g, xi),
                                  linspace(bbox.minx, bbox.maxx, g, yi + 1),
                                  linspace(bbox.miny, bbox.maxy, g, xi + 1)),
                 cell_id |-> i]))

\* for yi in range(grid_size): cells.append(...); i += 1
RECURSIVE grid_inner(_, _, _, _, _, _)
grid_inner(bbox, g, xi, yi, i, cells) ==
    IF yi >= g THEN cells
    ELSE grid_inner(bbox, g, xi, yi + 1, i + 1,
            Append(cells,
                [geometry |-> box(linspace(bbox.minx, bbox.maxx, g, xi),
                                  linspace(bbox.miny, bbox.maxy, g, yi),
                                  linspace(bbox.minx, bbox.maxx, g, xi + 1),
                                  linspace(bbox.miny, bbox.maxy, g, yi + 1)),
                 cell_id |-> i]))

\* for xi in range(grid_size): ...
RECURSIVE grid_outer(_, _, _, _)
grid_outer(bbox, g, xi, cells) ==
    IF xi >= g THEN cells
    ELSE grid_outer(bbox, g, xi + 1, grid_inner(bbox, g, xi, 0, Len(cells), cells))

\* The GeoDataFrame: its rows in order, with the denominator of their
\* coordinates.  np.linspace raises ValueError for a negative number of
\* samples; no other input is rejected.  For grid_size 0 and -1 the loops
\* do not run and the frame has no rows (the handlers then fail in
\* minmax_scale, see minmax_scale_raises).
generate_grid(bbox, grid_size) ==
    IF grid_size + 1 < 0 THEN [status |-> ValueError, den |-> 1, cells |-> <<>>]
    ELSE IF grid_size <= 0 THEN [status |-> "ok", den |-> 1, cells |-> <<>>]
    ELSE [status |-> "ok", den |-> 2 * grid_size,
          cells |-> grid_outer(bbox, grid_size, 0, <<>>)]

----------------------------------------------------------------------------
(* recommend_planting_locations *)

MetersPerDegree == 111000

\* gdf['heat'], gdf['lon'], gdf['lat'] (lines 80-84): the centroid of a
\* rectangle is the midpoint of its corners.
with_heat(gdf, heat_scores) ==
    [i \in 1..Len(gdf.cells) |->
        [cell_id |-> gdf.cells[i].cell_id,
         lon |-> (gdf.cells[i].geometry.minx + gdf.cells[i].geometry.maxx) \div 2,
         lat |-> (gdf.cells[i].geometry.miny + gdf.cells[i].geometry.maxy) \div 2,
         heat |-> heat_scores[i]]]

\* Every arrangement of the rows S of `rows` by descending heat.
RECURSIVE DescendingOrders(_, _)
DescendingOrders(rows, S) ==
    IF S = {} THEN {<<>>}
    ELSE LET top == {i \in S : \A j \in S : rows[j].heat <= rows[i].heat}
         IN  UNION {{<<rows[i]>> \o o : o \in DescendingOrders(rows, S \ {i})} : i \in top}

\* Mutant of sort_values: ascending order.
RECURSIVE AscendingOrders(_, _)
AscendingOrders(rows, S) ==
    IF S = {} THEN {<<>>}
    ELSE LET low == {i \in S : \A j \in S : rows[i].heat <= rows[j].heat}
         IN  UNION {{<<rows[i]>> \o o : o \in AscendingOrders(rows, S \ {i})} : i \in low}

sort_values_ascending(rows) == AscendingOrders(rows, 1..Len(rows))

\* gdf.sort_values('heat', ascending=False): the default sort kind is
\* quicksort, which is not stable, so rows of equal heat may come out in any
\* order.
sort_values(rows) == DescendingOrders(rows, 1..Len(rows))

\* p.distance(chosen) * 111000 < min_distance_m, for coordinates that are
\* numerators over den in thousandths of a degree.
dist_m_lt(p, q, min_distance_m, den) ==
    /\ min_distance_m > 0
    /\ ((p.lon - q.lon) * (p.lon - q.lon) + (p.lat - q.lat) * (p.lat - q.lat))
         * (MetersPerDegree \div 1000) * (MetersPerDegree \div 1000)
       < min_distance_m * min_distance_m * den * den

\* Mutant of too_close: only the latest pick is compared.
too_close_latest_only(row, chosen, min_distance_m, den) ==
    /\ Len(chosen) > 0
    /\ dist_m_lt(row, chosen[Len(chosen)], min_distance_m, den)

\* for chosen in picks: ... too_close = True
too_close(row, chosen, min_distance_m, den) ==
    \E c \in 1..Len(chosen) : dist_m_lt(row, chosen[c], min_distance_m, den)

\* Mutant of enough: the loop stops one pick late.
enough_one_late(chosen, k) == Len(chosen) > k

\* if len(picks) >= k: break
enough(chosen, k) == Len(chosen) >= k

\* for idx, row in candidates.iterrows(): ...
RECURSIVE select(_, _, _, _, _, _)
select(candidates, idx, chosen, k, min_distance_m, den) ==
    IF idx > Len(candidates) \/ enough(chosen, k) THEN chosen
    ELSE LET row == candidates[idx]
         IN  select(candidates, idx + 1,
                    IF too_close(row, chosen, min_distance_m, den) THEN chosen
                    ELSE Append(chosen, [cell_id |-> row.cell_id, lon |-> row.lon,
                                         lat |-> row.lat, score |-> row.heat]),
                    k, min_distance_m, den)

\* The lists the call can return: one per outcome of the sort.
recommend_planting_locations(gdf, heat_scores, k, min_distance_m) ==
    {select(candidates, 1, <<>>, k, min_distance_m, gdf.den) :
        candidates \in sort_values(with_heat(gdf, heat_scores))}

----------------------------------------------------------------------------
(* The two endpoints *)

\* lines 147-150
heatmap_scores(n, seed) ==
    LET surface == simulate_layer_values(n, seed, Lit(15, 10), Lit(1, 1))
        build == simulate_layer_values(n, seed + 1, Lit(1, 1), Lit(5, 10))
        traffic == simulate_layer_values(n, seed + 2, Lit(8, 10), Lit(2, 10))
    IN  [surface |-> surface, build |-> build, traffic |-> traffic,
         heat |-> compute_heat_score(surface, build, traffic)]

\* Mutant of recommendations_scores: the building layer reuses the surface
\* layer's seed.
recommendations_scores_same_seed(n, seed) ==
    LET surface == simulate_layer_values(n, seed, Lit(15, 10), Lit(1, 1))
        build == simulate_layer_values(n, seed, Lit(1, 1), Lit(5, 10))
        traffic == simulate_layer_values(n, seed + 2, Lit(8, 10), Lit(2, 10))
    IN  [surface |-> surface, build |-> build, traffic |-> traffic,
         heat |-> compute_heat_score(surface, build, traffic)]

\* lines 174-177
recommendations_scores(n, seed) ==
    LET surface == simulate_layer_values(n, seed, Lit(15, 10), Lit(1, 1))
        build == simulate_layer_values(n, seed + 1, Lit(1, 1), Lit(5, 10))
        traffic == simulate_layer_values(n, seed + 2, Lit(8, 10), Lit(2, 10))
    IN  [surface |-> surface, build |-> build, traffic |-> traffic,
         heat |-> compute_heat_score(surface, build, traffic)]

\* An exception no handler catches: the request fails, nothing is returned.
Raised(e) == [status |-> e, den |-> 1, features |-> <<>>]

\* POST /generate-heatmap (lines 143-168)
heatmap_response(r) ==
    LET gdf == generate_grid(r.bbox, r.grid_size)
        n == Len(gdf.cells)
    IN  IF gdf.status # "ok" THEN Raised(gdf.status)
        ELSE IF minmax_scale_raises(gdf.cells) THEN Raised(ValueError)
        ELSE LET s == heatmap_scores(n, r.seed)
             IN  [status |-> "ok", den |-> gdf.den,
                  features |-> [idx \in 1..n |->
                      [geometry |-> gdf.cells[idx].geometry,
                       cell_id |-> gdf.cells[idx].cell_id,
                       surface_temp |-> s.surface[idx],
                       building_density |-> s.build[idx],
                       traffic |-> s.traffic[idx],
                       heat_score |-> s.heat[idx]]]]

\* POST /recommendations (lines 171-189): the responses it can give
recommendations_responses(r) ==
    LET gdf == generate_grid(r.bbox, r.grid_size)
        n == Len(gdf.cells)
    IN  IF gdf.status # "ok" THEN {Raised(gdf.status)}
        ELSE IF minmax_scale_raises(gdf.cells) THEN {Raised(ValueError)}
        ELSE LET s == recommendations_scores(n, r.seed)
             IN  {[status |-> "ok", den |-> gdf.den,
                   features |-> [j \in 1..Len(ps) |->
                       [geometry |-> [lon |-> ps[j].lon, lat |-> ps[j].lat],
                        cell_id |-> ps[j].cell_id,
                        score |-> ps[j].score]]] :
                  ps \in recommend_planting_locations(gdf, s.heat, r.top_k,
                                                      r.min_distance_m)}

\* min_distance_m values: 0 and, for each j, exactly j cell widths of one
\* thousandth of a degree (111 m) and one metre more.
MinDistances ==
    {0} \cup {(MetersPerDegree \div 1000) * j + d : j \in 1..MaxSteps, d \in {0, 1}}

Coords == 0..MaxCoord

Requests ==
    [bbox : [minx : 0..1, miny : {0}, maxx : Coords, maxy : 0..1],
     grid_size : -2..MaxGrid,
     seed : 0..MaxSeed,
     top_k : -1..MaxK,
     min_distance_m : {-1, 0} \cup {(MetersPerDegree \div 1000) * j : j \in 1..MaxSteps}]

Init ==
    /\ req \in Requests
    /\ heatmapResp = None
    /\ recsResp = None
    /\ sel = None /\ grid = None /\ picks = None
    /\ draw = None /\ layers = None /\ score = None

generate_heatmap ==
    /\ heatmapResp.status = "none"
    /\ heatmapResp' = heatmap_response(req)
    /\ UNCHANGED <<req, recsResp, sel, grid, picks, draw, layers, score>>

recommendations ==
    /\ recsResp.status = "none"
    /\ recsResp' \in recommendations_responses(req)
    /\ UNCHANGED <<req, heatmapResp, sel, grid, picks, draw, layers, score>>

Next == generate_heatmap \/ recommendations

Spec == Init /\ [][Next]_vars

----------------------------------------------------------------------------
(* recommend_planting_locations on its own: any score array on a valid grid *)

ExhaustiveCells == 4  \* grids of up to this many cells get every score array

\* Score arrays for n cells: all of them over 0..MaxHeat on a small grid,
\* the cyclic ramps (ascending and descending, from every level) on a larger.
ScoreArrays(n) ==
    IF n <= ExhaustiveCells THEN [1..n -> 0..MaxHeat]
    ELSE {[i \in 1..n |-> (a * i + b) % (MaxHeat + 1)] :
             a \in {1, MaxHeat}, b \in 0..MaxHeat}

ValidBoxes ==
    {b \in [minx : Coords, miny : Coords, maxx : Coords, maxy : Coords] :
        b.minx < b.maxx /\ b.miny < b.maxy}

InitSelect ==
    /\ \E b \in ValidBoxes, g \in 1..MaxGrid :
         \E h \in ScoreArrays(g * g), k \in 0..MaxK, d \in MinDistances :
            sel = [status |-> "call", bbox |-> b, grid_size |-> g,
                   heat_scores |-> h, k |-> k, min_distance_m |-> d]
    /\ grid = None
    /\ picks = None
    /\ req = None /\ heatmapResp = None /\ recsResp = None
    /\ draw = None /\ layers = None /\ score = None

GenerateGrid ==
    /\ grid.status = "none"
    /\ grid' = generate_grid(sel.bbox, sel.grid_size)
    /\ UNCHANGED <<req, heatmapResp, recsResp, sel, picks, draw, layers, score>>

Recommend ==
    /\ grid.status = "ok"
    /\ picks.status = "none"
    /\ \E ps \in recommend_planting_locations(grid, sel.heat_scores, sel.k,
                                              sel.min_distance_m) :
          picks' = Ok(ps)
    /\ UNCHANGED <<req, heatmapResp, recsResp, sel, grid, draw, layers, score>>

NextSelect == GenerateGrid \/ Recommend

SpecSelect == InitSelect /\ [][NextSelect]_vars

----------------------------------------------------------------------------
(* Properties of the two endpoints (Spec) *)

InvalidGridInput(r) ==
    \/ r.grid_size < 1
    \/ r.bbox.minx >= r.bbox.maxx
    \/ r.bbox.miny >= r.bbox.maxy

\* The request failed and returned nothing.  Any error counts: the source
\* defines no InvalidInputError of its own, so the weakest reading of
\* "fails with InvalidInputError" is taken.
Rejected(resp) == resp.status # "ok" /\ resp.features = <<>>

\* C7: a request with grid_size < 1 or a degenerate bounding box
\* (minx >= maxx or miny >= maxy) fails (with InvalidInputError) in both
\* endpoints, which return no cells and no recommendations.
C7_GridInputRejected ==
    InvalidGridInput(req) =>
        /\ heatmapResp.status # "none" => Rejected(heatmapResp)
        /\ recsResp.status # "none" => Rejected(recsResp)

\* C8: the recommendation endpoint rejects a request (otherwise well formed)
\* whose top_k or min_distance_m is negative (with InvalidInputError); it
\* does not answer it with a list, empty or not.
C8_NegativeRejected ==
    (/\ ~InvalidGridInput(req)
     /\ (req.top_k < 0 \/ req.min_distance_m < 0)
     /\ recsResp.status # "none") => Rejected(recsResp)

\* C10: for the same request, every recommendation carries the cell_id of
\* exactly one cell of the heatmap's grid, no cell_id occurs twice among the
\* recommendations, and a recommendation's score is the heat_score the
\* heatmap reports for that cell.
C10_SameScores ==
    (heatmapResp.status = "ok" /\ recsResp.status = "ok") =>
        LET cells == heatmapResp.features
            recs == recsResp.features
        IN  \A j \in 1..Len(recs) :
               /\ Cardinality({i \in 1..Len(cells) :
                                 cells[i].cell_id = recs[j].cell_id}) = 1
               /\ \A i \in 1..Len(cells) :
                     cells[i].cell_id = recs[j].cell_id =>
                         cells[i].heat_score = recs[j].score
               /\ \A j2 \in 1..Len(recs) :
                     j2 # j => recs[j2].cell_id # recs[j].cell_id

\* Both endpoints have answered the request, with at least two
\* recommendations of different scores.
C10_Witness ==
    /\ heatmapResp.status = "ok"
    /\ recsResp.status = "ok"
    /\ \E i, j \in 1..Len(recsResp.features) :
          recsResp.features[i].score # recsResp.features[j].score

----------------------------------------------------------------------------
(* Properties of generate_grid and recommend_planting_locations (SpecSelect) *)

SqDist(p, q) ==
    (p.lon - q.lon) * (p.lon - q.lon) + (p.lat - q.lat) * (p.lat - q.lat)

\* The planar distance of p and q in degrees, times 111000, compared with m
\* metres (m >= 0); coordinates are numerators over den, in thousandths of a
\* degree.
MetresApart(p, q, m, den) ==
    SqDist(p, q) * (MetersPerDegree \div 1000) * (MetersPerDegree \div 1000)
        >= m * m * den * den

ExactlyMetresApart(p, q, m, den) ==
    SqDist(p, q) * (MetersPerDegree \div 1000) * (MetersPerDegree \div 1000)
        = m * m * den * den

Centroid(cell) ==
    [lon |-> (cell.geometry.minx + cell.geometry.maxx) \div 2,
     lat |-> (cell.geometry.miny + cell.geometry.maxy) \div 2]

Picked(ps, id) == \E j \in 1..Len(ps) : ps[j].cell_id = id

Min2(a, b) == IF a < b THEN a ELSE b

\* C1: any two distinct recommendations returned by
\* recommend_planting_locations are at least min_distance_m apart (planar
\* distance in degrees times 111000); a pair at exactly min_distance_m is
\* allowed, a closer pair never occurs.
C1_Separation ==
    picks.status = "ok" =>
        \A i, j \in 1..Len(picks.value) :
            i # j => MetresApart(picks.value[i], picks.value[j],
                                 sel.min_distance_m, grid.den)

\* A call that returned two picks exactly min_distance_m apart and fewer
\* picks than asked for, with cells left over.
C1_Witness ==
    /\ picks.status = "ok"
    /\ sel.min_distance_m > 0
    /\ Len(picks.value) < sel.k
    /\ Len(picks.value) < Len(grid.cells)
    /\ \E i, j \in 1..Len(picks.value) :
          i # j /\ ExactlyMetresApart(picks.value[i], picks.value[j],
                                      sel.min_distance_m, grid.den)

\* C2: recommend_planting_locations never returns more than k
\* recommendations; when it returns fewer than k, every cell of the grid
\* that is not in the result is closer than min_distance_m to some cell in
\* the result; k = 0 gives the empty list.
C2_Cap ==
    picks.status = "ok" =>
        LET ps == picks.value
        IN  /\ Len(ps) <= sel.k
            /\ (sel.k = 0 => ps = <<>>)
            /\ Len(ps) < sel.k =>
                 \A c \in 1..Len(grid.cells) :
                    ~Picked(ps, grid.cells[c].cell_id) =>
                        \E j \in 1..Len(ps) :
                            ~MetresApart(Centroid(grid.cells[c]), ps[j],
                                         sel.min_distance_m, grid.den)

\* A call that returned at least two picks but fewer than k, on a grid with
\* more cells than picks: the rest were suppressed.
C2_Witness ==
    /\ picks.status = "ok"
    /\ Len(picks.value) >= 2
    /\ Len(picks.value) < sel.k
    /\ Len(picks.value) < Len(grid.cells)

RECURSIVE TieBrokenOrder(_, _)
TieBrokenOrder(rows, S) ==
    IF S = {} THEN <<>>
    ELSE LET first == CHOOSE i \in S : \A j \in S \ {i} :
                         \/ rows[j].heat < rows[i].heat
                         \/ (rows[j].heat = rows[i].heat
                             /\ rows[i].cell_id < rows[j].cell_id)
         IN  <<rows[first]>> \o TieBrokenOrder(rows, S \ {first})

C5_GridIdentifiers ==
    grid.status = "ok" =>
        LET g == sel.grid_size
            b == sel.bbox
        IN  /\ Len(grid.cells) = g * g
            /\ \A p \in 1..Len(grid.cells) : grid.cells[p].cell_id = p - 1
            /\ \A xi, yi \in 0..(g - 1) :
                 \E p \in 1..Len(grid.cells) :
                    /\ grid.cells[p].cell_id = xi * g + yi
                    /\ LET c == grid.cells[p].geometry
                       IN  /\ c.minx * g = grid.den * (g * b.minx + xi * (b.maxx - b.minx))
                           /\ c.maxx * g = grid.den * (g * b.minx + (xi + 1) * (b.maxx - b.minx))
                           /\ c.miny * g = grid.den * (g * b.miny + yi * (b.maxy - b.miny))
                           /\ c.maxy * g = grid.den * (g * b.miny + (yi + 1) * (b.maxy - b.miny))

\* A grid of at least 2 x 2 cells on a box that is not a square and does not
\* start at the origin.
C5_Witness ==
    /\ grid.status = "ok"
    /\ sel.grid_size >= 2
    /\ sel.bbox.minx > 0
    /\ sel.bbox.maxx - sel.bbox.minx # sel.bbox.maxy - sel.bbox.miny

RECURSIVE AreaSum(_)
AreaSum(cells) ==
    IF cells = <<>> THEN 0
    ELSE (cells[1].geometry.maxx - cells[1].geometry.minx)
            * (cells[1].geometry.maxy - cells[1].geometry.miny)
         + AreaSum(Tail(cells))

\* C6: the cells of generate_grid tile the bounding box: each lies inside
\* it, no two overlap in their interiors, and their areas sum to its area.
C6_Tiling ==
    grid.status = "ok" =>
        LET b == sel.bbox
            d == grid.den
        IN  /\ \A p \in 1..Len(grid.cells) :
                 LET c == grid.cells[p].geometry
                 IN  /\ d * b.minx <= c.minx /\ c.minx < c.maxx /\ c.maxx <= d * b.maxx
                     /\ d * b.miny <= c.miny /\ c.miny < c.maxy /\ c.maxy <= d * b.maxy
            /\ \A p, q \in 1..Len(grid.cells) :
                 p # q =>
                    LET c == grid.cells[p].geometry
                        e == grid.cells[q].geometry
                    IN  \/ c.maxx <= e.minx \/ e.maxx <= c.minx
                        \/ c.maxy <= e.miny \/ e.maxy <= c.miny
            /\ AreaSum(grid.cells) = d * d * (b.maxx - b.minx) * (b.maxy - b.miny)

\* A grid of several cells on a box away from the origin in both axes.
C6_Witness ==
    /\ grid.status = "ok"
    /\ Len(grid.cells) >= 4
    /\ sel.bbox.minx > 0
    /\ sel.bbox.miny > 0

----------------------------------------------------------------------------
(* The normalisation pipeline on its own: the three draws are arbitrary *)

\* Values a standard-normal draw is taken from.
ZVals == {k * (One \div 2) : k \in -1..1}

InitNorm ==
    /\ \E n \in 1..MaxLen : \E z \in [1..3 -> [1..n -> ZVals]] : draw = Ok(z)
    /\ layers = None
    /\ score = None
    /\ req = None /\ heatmapResp = None /\ recsResp = None
    /\ sel = None /\ grid = None /\ picks = None

\* The three calls of simulate_layer_values (lines 147-149, 174-176).
SimulateLayers ==
    /\ layers.status = "none"
    /\ layers' = Ok(<<normalize_draw(draw.value[1], Lit(15, 10), Lit(1, 1)),
                      normalize_draw(draw.value[2], Lit(1, 1), Lit(5, 10)),
                      normalize_draw(draw.value[3], Lit(8, 10), Lit(2, 10))>>)
    /\ UNCHANGED <<req, heatmapResp, recsResp, sel, grid, picks, draw, score>>

\* The call of compute_heat_score on them (lines 150, 177).
FuseLayers ==
    /\ layers.status = "ok"
    /\ score.status = "none"
    /\ score' = Ok(compute_heat_score(layers.value[1], layers.value[2], layers.value[3]))
    /\ UNCHANGED <<req, heatmapResp, recsResp, sel, grid, picks, draw, layers>>

NextNorm == SimulateLayers \/ FuseLayers

SpecNorm == InitNorm /\ [][NextNorm]_vars

----------------------------------------------------------------------------
(* Properties of the normalisation pipeline (SpecNorm) *)

InUnit(X) == \A i \in 1..Len(X) : 0 <= X[i] /\ X[i] <= One

Constant(X) == \A i, j \in 1..Len(X) : X[i] = X[j]

\* `out` is `raw` normalised as the claim says.
Normalized(raw, out) ==
    /\ InUnit(out)
    /\ ~Constant(raw) => (SeqMin(out) = 0 /\ SeqMax(out) = One)
    /\ Constant(raw) => Constant(out)

\* C9: every value of simulate_layer_values and of compute_heat_score lies
\* in [0, 1]; a non-constant raw array has normalised minimum exactly 0 and
\* maximum exactly 1; a constant raw array gives a constant result.
C9_Normalized ==
    /\ layers.status = "ok" =>
         /\ Normalized(raw_layer(draw.value[1], Lit(15, 10), Lit(1, 1)), layers.value[1])
         /\ Normalized(raw_layer(draw.value[2], Lit(1, 1), Lit(5, 10)), layers.value[2])
         /\ Normalized(raw_layer(draw.value[3], Lit(8, 10), Lit(2, 10)), layers.value[3])
    /\ score.status = "ok" =>
         Normalized(weighted_sum(layers.value[1], layers.value[2], layers.value[3]),
                    score.value)

====
